---- MODULE Spec2Model ----
(***************************************************************************)
(* The turn-routing workflow of src/src/agent.py (a LangGraph StateGraph   *)
(* over AgentState, compiled with an InMemorySaver checkpointer) and the   *)
(* response schemas of src/src/schemas.py.                                 *)
(*                                                                         *)
(* storage[s] is the checkpointed AgentState of session s: a dictionary    *)
(* whose domain is the set of state keys written so far.  run[s] is the    *)
(* position of the turn in flight on session s plus a record of what the   *)
(* turn did (which nodes were invoked, what the collaborators returned).   *)
(* The language model, the tools and the prompt templates are external:    *)
(* their answers are drawn nondeterministically from small sets.           *)
(***************************************************************************)
EXTENDS Integers, Sequences, FiniteSets, TLC

VARIABLES storage, run, candidate, constructed

vars == <<storage, run, candidate, constructed>>

----------------------------------------------------------------------------
(* Bounds *)

MaxTurns == 2
MaxStops == 1
MaxSharedTurns == 2

AllSessions == {"s1", "s2"}
Sessions == {"s1"}
Inputs == {"ask"}
Summaries == {"sumA", "sumB"}

----------------------------------------------------------------------------
(* Python values *)

\* A value of a List field: a list, or (when a default_factory of
\* `lambda: list` supplied it) the class `list` itself.
PyList(items) == [kind |-> "list", items |-> items]
PyListClass == [kind |-> "type", items |-> <<>>]

\* Python truthiness: an empty list is falsy, a class is truthy.
Truthy(v) == IF v.kind = "list" THEN Len(v.items) > 0 ELSE TRUE

\* Number of entries a value holds; the class `list` holds none.
Entries(v) == IF v.kind = "list" THEN Len(v.items) ELSE 0

\* An optional keyword argument: <<>> when omitted, <<x>> when passed.
Omitted == <<>>
Passed(x) == <<x>>

\* dict.get(key, default)
Get(d, k, dflt) == IF k \in DOMAIN d THEN d[k] ELSE dflt

Max(S) == CHOOSE x \in S : \A y \in S : y <= x

----------------------------------------------------------------------------
(* schemas.py *)

\* Field(default_factory=lambda: list): the factory returns the class.
DefaultList == PyListClass

\* Confidence is held in tenths: 7 is 0.7.
HighConfidence == 7
ConfidenceMax == 10
ConfidenceMin == 0

validate_sources_with_confidence(self) ==
    ~(self.confidence >= HighConfidence /\ ~Truthy(self.sources))

\* AnswerResponse(question=.., answer=.., confidence=c [, sources=..]):
\* the constructed object, or a validation failure.
AnswerResponse(args) ==
    LET self == [confidence |-> args.confidence,
                 sources |-> IF args.sources = Omitted THEN DefaultList
                             ELSE PyList(args.sources[1])]
    IN IF /\ args.confidence <= ConfidenceMax
          /\ args.confidence >= ConfidenceMin
          /\ validate_sources_with_confidence(self)
       THEN [ok |-> TRUE, value |-> self]
       ELSE [ok |-> FALSE, value |-> self]

SummarizationResponse(args) ==
    [document_ids |-> IF args.document_ids = Omitted THEN DefaultList
                      ELSE PyList(args.document_ids[1])]

CalculationResponse(args) == [result |-> args.result]

UpdateMemoryResponse(args) ==
    [summary |-> args.summary,
     document_ids |-> IF args.document_ids = Omitted THEN DefaultList
                      ELSE PyList(args.document_ids[1])]

IntentTypes == {"qa", "summarization", "calculation", "unknown"}

UserIntent(t) == [intent_type |-> t]

----------------------------------------------------------------------------
(* Messages and the reducers of AgentState *)

\* A message; id 0 is a message that has no id yet (id = None).
Message(id, type, name, content) ==
    [id |-> id, type |-> type, name |-> name, content |-> content]

Ids(msgs) == {msgs[i].id : i \in 1..Len(msgs)}

\* A fresh identifier stands for uuid4(): one no message of msgs carries.
FreshId(msgs) == Max(Ids(msgs) \cup {0}) + 1

\* add_messages gives every message without an id a fresh one.
RECURSIVE AssignIds(_, _)
AssignIds(msgs, from) ==
    IF msgs = <<>> THEN <<>>
    ELSE IF Head(msgs).id = 0
         THEN <<[Head(msgs) EXCEPT !.id = from]>> \o AssignIds(Tail(msgs), from + 1)
         ELSE <<Head(msgs)>> \o AssignIds(Tail(msgs), from)

WithIds(msgs) == AssignIds(msgs, FreshId(msgs))

IndexOfId(left, id) ==
    IF \E i \in 1..Len(left) : left[i].id = id
    THEN CHOOSE i \in 1..Len(left) : left[i].id = id /\ \A j \in (i+1)..Len(left) : left[j].id # id
    ELSE 0

\* Merge of right into left: a message of right whose id is already in left
\* replaces that message in place, any other message is appended.
RECURSIVE MergeById(_, _, _)
MergeById(left, merged, right) ==
    IF right = <<>> THEN merged
    ELSE LET m == Head(right)
             i == IndexOfId(left, m.id)
         IN MergeById(left,
                      IF i > 0 THEN [merged EXCEPT ![i] = m] ELSE Append(merged, m),
                      Tail(right))

\* A reducer that concatenates, as operator.add would.
add_messages_concatenating(left, right) == left \o right

\* The reducer of AgentState.messages.
add_messages(left, right) ==
    LET l == WithIds(left)
        r == AssignIds(right, FreshId(l \o right))
    IN MergeById(l, l, r)

\* No reducer: the value written last wins.
operator_add_overwriting(left, right) == right

\* The reducer of AgentState.actions_taken: operator.add on lists.
operator_add(left, right) == left \o right

\* The keys of AgentState that carry a reducer.
Reduced(k, old, new) ==
    IF k = "messages" THEN add_messages(old, new)
    ELSE IF k = "actions_taken" THEN operator_add(old, new)
    ELSE new

\* The state after a node's partial update: reducer keys are merged, every
\* other key written is overwritten, keys not written keep their value.
ApplyUpdate(state, update) ==
    [k \in DOMAIN state \cup DOMAIN update |->
        IF k \in DOMAIN update
        THEN IF k \in DOMAIN state THEN Reduced(k, state[k], update[k])
             ELSE update[k]
        ELSE state[k]]

\* A session nobody has invoked yet: only the reducer channels hold a value.
EmptyState == [messages |-> <<>>, actions_taken |-> <<>>]

----------------------------------------------------------------------------
(* agent.py: the collaborators *)

\* get_chat_prompt_template(kind).invoke({input, chat_history}).to_messages():
\* a system message for the task kind, the history, the user's input.
get_chat_prompt_template(kind, input, chat_history) ==
    <<Message(0, "system", "", kind)>> \o chat_history
        \o <<Message(0, "human", "", input)>>

\* What one tool-augmented reasoning loop adds for the tool calls the model
\* makes: an assistant message and a tool message per call, then the answer.
RECURSIVE LoopMessages(_, _)
LoopMessages(calls, from) ==
    IF calls = <<>> THEN <<Message(from, "ai", "", "answer")>>
    ELSE <<Message(from, "ai", "", "tool_call"),
           Message(from + 1, "tool", Head(calls), "tool_result")>>
         \o LoopMessages(Tail(calls), from + 2)

\* agent.invoke({"messages": messages}): the messages given (with ids), the
\* loop's messages and the structured response.
ReactAgentInvoke(messages, calls, structured) ==
    LET given == WithIds(messages)
    IN [messages |-> given \o LoopMessages(calls, FreshId(given)),
        structured_response |-> structured]

RECURSIVE ToolMessageNames(_)
ToolMessageNames(msgs) ==
    IF msgs = <<>> THEN <<>>
    ELSE IF Head(msgs).type = "tool"
         THEN <<Head(msgs).name>> \o ToolMessageNames(Tail(msgs))
         ELSE ToolMessageNames(Tail(msgs))

invoke_react_agent(messages, calls, structured) ==
    LET result == ReactAgentInvoke(messages, calls, structured)
        tools_used == ToolMessageNames(Get(result, "messages", <<>>))
    IN [result |-> result, tools_used |-> tools_used]

----------------------------------------------------------------------------
(* agent.py: the nodes, each as the partial update it returns *)

\* classify_intent leaving next_step as the checkpoint holds it.
classify_intent_keeping_step(state, response) ==
    [actions_taken |-> <<"classify_intent">>,
     intent |-> response]

classify_intent(state, response) ==
    LET next_step == response.intent_type
    IN [actions_taken |-> <<"classify_intent">>,
        intent |-> response,
        next_step |-> next_step]

qa_agent(state, calls, structured) ==
    LET messages == get_chat_prompt_template("qa", state.user_input,
                                             Get(state, "messages", <<>>))
        r == invoke_react_agent(messages, calls, structured)
    IN [messages |-> Get(r.result, "messages", <<>>),
        actions_taken |-> <<"qa_agent">>,
        current_response |-> r.result,
        tools_used |-> r.tools_used,
        next_step |-> "update_memory"]

summarization_agent(state, calls, structured) ==
    LET messages == get_chat_prompt_template("summarization", state.user_input,
                                             Get(state, "messages", <<>>))
        r == invoke_react_agent(messages, calls, structured)
    IN [messages |-> Get(r.result, "messages", <<>>),
        actions_taken |-> <<"summarization_agent">>,
        current_response |-> r.result,
        tools_used |-> r.tools_used,
        next_step |-> "update_memory"]

calculation_agent(state, calls, structured) ==
    LET messages == get_chat_prompt_template("calculation", state.user_input,
                                             Get(state, "messages", <<>>))
        r == invoke_react_agent(messages, calls, structured)
    IN [messages |-> Get(r.result, "messages", <<>>),
        actions_taken |-> <<"calculation_agent">>,
        current_response |-> r.result,
        tools_used |-> r.tools_used,
        next_step |-> "update_memory"]

\* update_memory leaving active_documents as it finds them.
update_memory_keeping_documents(state, response) ==
    [conversation_summary |-> response.summary,
     active_documents |-> Get(state, "active_documents", PyList(<<>>)),
     actions_taken |-> <<"update_memory">>,
     next_step |-> "end"]

\* update_memory leaving next_step as the task handler set it.
update_memory_keeping_step(state, response) ==
    [conversation_summary |-> response.summary,
     active_documents |-> response.document_ids,
     actions_taken |-> <<"update_memory">>,
     next_step |-> state.next_step]

\* update_memory that also clears tools_used.
update_memory_clearing_tools(state, response) ==
    [conversation_summary |-> response.summary,
     active_documents |-> response.document_ids,
     actions_taken |-> <<"update_memory">>,
     tools_used |-> <<>>,
     next_step |-> "end"]

update_memory(state, response) ==
    [conversation_summary |-> response.summary,
     active_documents |-> response.document_ids,
     actions_taken |-> <<"update_memory">>,
     next_step |-> "end"]

should_continue(state) == Get(state, "next_step", "end")

----------------------------------------------------------------------------
(* agent.py: create_workflow *)

END == "__end__"

\* An entry point set on the memory step.
EntryPointAtMemory == "update_memory"

EntryPoint == "classify_intent"

\* A path map with two handlers exchanged.
PathMapCrossed ==
    [qa |-> "summarization_agent",
     summarization |-> "qa_agent",
     calculation |-> "calculation_agent",
     end |-> "__end__"]

\* The mapping of the conditional edges leaving classify_intent.
PathMap ==
    [qa |-> "qa_agent",
     summarization |-> "summarization_agent",
     calculation |-> "calculation_agent",
     end |-> END]

\* Edges on which the QA handler finishes the turn itself.
EdgeQaToEnd ==
    [qa_agent |-> "__end__",
     summarization_agent |-> "update_memory",
     calculation_agent |-> "update_memory",
     update_memory |-> "__end__"]

\* The fixed edges.
Edge ==
    [qa_agent |-> "update_memory",
     summarization_agent |-> "update_memory",
     calculation_agent |-> "update_memory",
     update_memory |-> END]

TaskHandlers == {"qa_agent", "summarization_agent", "calculation_agent"}

----------------------------------------------------------------------------
(* What the collaborators may answer *)

\* The tool calls one reasoning loop makes, in the order it makes them.
ToolCalls == {<<>>, <<"document_reader", "calculator">>}

\* The arguments the model proposes for an AnswerResponse.
AnswerArgs ==
    {[confidence |-> 9, sources |-> Passed(<<"encyclopedia">>)],
     [confidence |-> 9, sources |-> Passed(<<>>)],
     [confidence |-> 9, sources |-> Omitted],
     [confidence |-> 5, sources |-> Passed(<<>>)]}

SummarizationArgs ==
    {[document_ids |-> d] : d \in {Omitted, Passed(<<"d1", "d2", "d3">>)}}

CalculationArgs == {[result |-> 42]}

UpdateMemoryArgs ==
    {[summary |-> t, document_ids |-> d] :
        t \in Summaries, d \in {Passed(<<"d1">>), Passed(<<"d1", "d2", "d3">>)}}

UserOf(s) == "user_of_" \o s

----------------------------------------------------------------------------
(* The state machine *)

IdleRun ==
    [pc |-> "idle", turns |-> 0, outcome |-> "none", nodes_run |-> <<>>,
     failed |-> "none", error |-> "none", llm_intent |-> "none",
     invoked |-> <<>>, handler_args |-> <<>>, memory |-> <<>>,
     pre |-> EmptyState, prev_outcome |-> "none", completed |-> <<>>,
     stops |-> 0, stopped_at |-> "none", stop_len |-> 0, pending |-> "none",
     resumed |-> FALSE, returned |-> <<>>]

Init ==
    /\ storage = [s \in AllSessions |-> EmptyState]
    /\ run = [s \in AllSessions |-> IdleRun]
    /\ candidate = <<>>
    /\ constructed = <<>>

\* The node has been invoked on session s.
Entered(s, node) == [run[s] EXCEPT !.nodes_run = Append(@, node)]

\* A node that records itself in actions_taken before it raises.
RaiseAfterRecording(s, node, error) ==
    /\ run' = [run EXCEPT ![s] = [Entered(s, node) EXCEPT
                   !.pc = "idle", !.outcome = "aborted",
                   !.failed = node, !.error = error]]
    /\ storage' = [storage EXCEPT ![s] =
                     ApplyUpdate(@, [actions_taken |-> <<node>>])]

\* The node raised: the turn aborts, none of the node's writes is applied.
Raise(s, node, error) ==
    /\ run' = [run EXCEPT ![s] = [Entered(s, node) EXCEPT
                   !.pc = "idle", !.outcome = "aborted",
                   !.failed = node, !.error = error]]
    /\ UNCHANGED storage

\* A saver that ignores the thread: one state shared by all sessions.
CommitToAll(s, r, update, target) ==
    LET done == [r EXCEPT !.completed = Append(@, r.nodes_run[Len(r.nodes_run)]),
                          !.returned = Append(@, r.nodes_run[Len(r.nodes_run)])]
    IN /\ storage' = [x \in AllSessions |-> ApplyUpdate(storage[x], update)]
       /\ run' = [run EXCEPT ![s] =
                    IF target = END
                    THEN [done EXCEPT !.pc = "idle", !.outcome = "ended"]
                    ELSE [done EXCEPT !.pc = target]]

\* The node returned update: its writes are applied and checkpointed, and
\* the graph moves on to target (END finishes the turn).
Commit(s, r, update, target) ==
    LET done == [r EXCEPT !.completed = Append(@, r.nodes_run[Len(r.nodes_run)]),
                          !.returned = Append(@, r.nodes_run[Len(r.nodes_run)])]
    IN /\ storage' = [storage EXCEPT ![s] = ApplyUpdate(@, update)]
       /\ run' = [run EXCEPT ![s] =
                    IF target = END
                    THEN [done EXCEPT !.pc = "idle", !.outcome = "ended"]
                    ELSE [done EXCEPT !.pc = target]]

\* graph.invoke({session_id, user_id, user_input}, thread_id = s): the input
\* is written over the session's checkpoint and the turn starts at the entry
\* point, whatever the previous turn left unfinished.
Submit(s) ==
    /\ run[s].pc = "idle"
    /\ \E input \in Inputs :
         storage' = [storage EXCEPT ![s] =
                        ApplyUpdate(@, [user_input |-> input,
                                        session_id |-> s,
                                        user_id |-> UserOf(s)])]
    /\ run' = [run EXCEPT ![s] =
                 [IdleRun EXCEPT !.pc = EntryPoint, !.turns = run[s].turns + 1,
                                 !.outcome = "running", !.pre = storage[s],
                                 !.prev_outcome = run[s].outcome,
                                 !.completed = run[s].completed,
                                 !.stops = run[s].stops,
                                 !.returned = run[s].returned]]
    /\ UNCHANGED <<candidate, constructed>>

\* A turn is submitted on session s, up to MaxTurns turns per session.
Invoke(s) ==
    /\ run[s].turns < MaxTurns
    /\ Submit(s)

\* The classify_intent node and the conditional edges that leave it: the
\* router function runs on the state as the node has just written it, and
\* its answer is looked up in the path map.
RunClassifyIntent(s) ==
    /\ run[s].pc = "classify_intent"
    /\ \/ Raise(s, "classify_intent", "StructuredOutputError")
       \/ \E t \in IntentTypes :
            LET update == classify_intent(storage[s], UserIntent(t))
                r == [Entered(s, "classify_intent") EXCEPT !.llm_intent = t]
                key == should_continue(ApplyUpdate(storage[s], update))
            IN IF key \in DOMAIN PathMap
               THEN Commit(s, r, update, PathMap[key])
               ELSE /\ run' = [run EXCEPT ![s] = [r EXCEPT
                                  !.pc = "idle", !.outcome = "aborted",
                                  !.failed = "classify_intent",
                                  !.error = "KeyError",
                                  !.returned = Append(@, "classify_intent")]]
                    /\ UNCHANGED storage
    /\ UNCHANGED <<candidate, constructed>>

RunQaAgent(s) ==
    /\ run[s].pc = "qa_agent"
    /\ \/ Raise(s, "qa_agent", "ModelError")
       \/ \E calls \in ToolCalls, args \in AnswerArgs :
            LET response == AnswerResponse(args)
                r == [Entered(s, "qa_agent") EXCEPT
                         !.invoked = calls, !.handler_args = <<args>>]
            IN IF response.ok
               THEN Commit(s, r, qa_agent(storage[s], calls, response.value),
                           Edge["qa_agent"])
               ELSE Raise(s, "qa_agent", "ValidationError")
    /\ UNCHANGED <<candidate, constructed>>

RunSummarizationAgent(s) ==
    /\ run[s].pc = "summarization_agent"
    /\ \/ Raise(s, "summarization_agent", "ModelError")
       \/ \E calls \in ToolCalls, args \in SummarizationArgs :
            LET r == [Entered(s, "summarization_agent") EXCEPT
                         !.invoked = calls, !.handler_args = <<args>>]
            IN Commit(s, r,
                      summarization_agent(storage[s], calls,
                                          SummarizationResponse(args)),
                      Edge["summarization_agent"])
    /\ UNCHANGED <<candidate, constructed>>

RunCalculationAgent(s) ==
    /\ run[s].pc = "calculation_agent"
    /\ \/ Raise(s, "calculation_agent", "ModelError")
       \/ \E calls \in ToolCalls, args \in CalculationArgs :
            LET r == [Entered(s, "calculation_agent") EXCEPT
                         !.invoked = calls, !.handler_args = <<args>>]
            IN Commit(s, r,
                      calculation_agent(storage[s], calls,
                                        CalculationResponse(args)),
                      Edge["calculation_agent"])
    /\ UNCHANGED <<candidate, constructed>>

RunUpdateMemory(s) ==
    /\ run[s].pc = "update_memory"
    /\ \/ Raise(s, "update_memory", "StructuredOutputError")
       \/ \E args \in UpdateMemoryArgs :
            LET response == UpdateMemoryResponse(args)
                r == [Entered(s, "update_memory") EXCEPT !.memory = <<response>>]
            IN Commit(s, r, update_memory(storage[s], response),
                      Edge["update_memory"])
    /\ UNCHANGED <<candidate, constructed>>

Next ==
    \E s \in Sessions :
        \/ Invoke(s)
        \/ RunClassifyIntent(s)
        \/ RunQaAgent(s)
        \/ RunSummarizationAgent(s)
        \/ RunCalculationAgent(s)
        \/ RunUpdateMemory(s)

Spec == Init /\ [][Next]_vars

----------------------------------------------------------------------------
(* Several sessions, their turns interleaved node by node *)

RECURSIVE TurnsOf(_)
TurnsOf(S) ==
    IF S = {} THEN 0
    ELSE LET x == CHOOSE y \in S : TRUE
         IN run[x].turns + TurnsOf(S \ {x})

\* A turn is submitted on session s, up to MaxSharedTurns turns in all.
InvokeShared(s) ==
    /\ TurnsOf(AllSessions) < MaxSharedTurns
    /\ Submit(s)

NextSessions ==
    \E s \in AllSessions :
        \/ InvokeShared(s)
        \/ RunClassifyIntent(s)
        \/ RunQaAgent(s)
        \/ RunSummarizationAgent(s)
        \/ RunCalculationAgent(s)
        \/ RunUpdateMemory(s)

SpecSessions == Init /\ [][NextSessions]_vars

----------------------------------------------------------------------------
(* Turns cut between two nodes, and resumption *)

\* The turn of session s has completed a node and not yet started the next.
BetweenNodes(s) ==
    /\ run[s].outcome = "running"
    /\ run[s].nodes_run # <<>>
    /\ run[s].pc \in TaskHandlers \cup {"update_memory"}
    /\ run[s].stops < MaxStops

Stopped(r, outcome, pending) ==
    [r EXCEPT !.pc = "idle", !.outcome = outcome, !.stops = @ + 1,
              !.stopped_at = r.pc, !.stop_len = Len(r.nodes_run),
              !.pending = pending]

\* The invocation is cut between two nodes and the process lives on: the
\* InMemorySaver still holds the checkpoint written after the last node,
\* with the node that was to run next.
Interrupt(s) ==
    /\ BetweenNodes(s)
    /\ run' = [run EXCEPT ![s] = Stopped(run[s], "interrupted", run[s].pc)]
    /\ UNCHANGED <<storage, candidate, constructed>>

\* The process dies between two nodes of the turn of session s.  The
\* InMemorySaver lives in the memory of the process: the checkpoints of all
\* sessions go with it, and the restarted process compiles the workflow
\* with a new, empty saver.
ProcessCrash(s) ==
    /\ BetweenNodes(s)
    /\ storage' = [x \in AllSessions |-> EmptyState]
    /\ run' = [x \in AllSessions |->
                 IF x = s THEN Stopped(run[x], "crashed", "none")
                 ELSE [run[x] EXCEPT !.pc = "idle", !.pending = "none",
                                     !.outcome = IF run[x].pc = "idle" THEN @
                                                 ELSE "crashed"]]
    /\ UNCHANGED <<candidate, constructed>>

\* graph.invoke(None, thread_id = s): the run continues from the checkpoint
\* of the session with the node that was to run next; without a checkpoint
\* there is nothing to continue and the call fails.
Resume(s) ==
    /\ run[s].pc = "idle"
    /\ run[s].outcome \in {"interrupted", "crashed"}
    /\ ~run[s].resumed
    /\ run' = [run EXCEPT ![s] =
                 IF run[s].pending # "none"
                 THEN [@ EXCEPT !.pc = run[s].pending, !.outcome = "running",
                                !.pending = "none", !.resumed = TRUE]
                 ELSE [@ EXCEPT !.outcome = "aborted", !.failed = "__start__",
                                !.error = "EmptyInputError", !.resumed = TRUE]]
    /\ UNCHANGED <<storage, candidate, constructed>>

NextCrash ==
    \E s \in Sessions :
        \/ Invoke(s)
        \/ RunClassifyIntent(s)
        \/ RunQaAgent(s)
        \/ RunSummarizationAgent(s)
        \/ RunCalculationAgent(s)
        \/ RunUpdateMemory(s)
        \/ Interrupt(s)
        \/ ProcessCrash(s)
        \/ Resume(s)

SpecCrash == Init /\ [][NextCrash]_vars

----------------------------------------------------------------------------
(* Construction of AnswerResponse on its own *)

SourcesArgs ==
    {Omitted, Passed(<<>>), Passed(<<"a">>), Passed(<<"b">>), Passed(<<"a", "b">>)}

\* Confidences from just below the allowed range to just above it.
ConstructionArgs ==
    {[confidence |-> c, sources |-> src] :
        c \in (ConfidenceMin - 1)..(ConfidenceMax + 1), src \in SourcesArgs}

InitSchema ==
    /\ storage = [s \in AllSessions |-> EmptyState]
    /\ run = [s \in AllSessions |-> IdleRun]
    /\ candidate \in {<<a>> : a \in ConstructionArgs}
    /\ constructed = <<>>

Construct ==
    /\ constructed = <<>>
    /\ constructed' = <<AnswerResponse(candidate[1])>>
    /\ UNCHANGED <<storage, run, candidate>>

NextSchema == Construct

SpecSchema == InitSchema /\ [][NextSchema]_vars

----------------------------------------------------------------------------
(* Vocabulary of the properties *)

HandledIntents == {"qa", "summarization", "calculation"}

\* The handler each intent is meant to select.
HandlerOf(t) ==
    CASE t = "qa" -> "qa_agent"
      [] t = "summarization" -> "summarization_agent"
      [] t = "calculation" -> "calculation_agent"
      [] OTHER -> "none"

\* The task handlers invoked so far in the turn of session s.
HandlersRun(s) == SelectSeq(run[s].nodes_run, LAMBDA n : n \in TaskHandlers)

\* Key k is the same in dictionaries a and b: absent in both, or equal.
SameKey(a, b, k) ==
    /\ (k \in DOMAIN a) <=> (k \in DOMAIN b)
    /\ k \in DOMAIN a => a[k] = b[k]

MemoryUntouched(s) ==
    /\ SameKey(storage[s], run[s].pre, "conversation_summary")
    /\ SameKey(storage[s], run[s].pre, "active_documents")

\* The turn of session s is over (it ended or it aborted).
TurnOver(s) == run[s].pc = "idle" /\ run[s].outcome \in {"ended", "aborted"}

\* A task handler has completed in the current turn of session s.
HandlerCompleted(s) ==
    /\ HandlersRun(s) # <<>>
    /\ run[s].failed \notin TaskHandlers

----------------------------------------------------------------------------
(* C1 *)

\* C1: a turn whose classifier answers "unknown" ends normally right after
\* classify_intent: no task handler and no update_memory is invoked, no
\* task-handler name is appended to actions_taken, and conversation_summary
\* and active_documents keep their pre-turn values.
C1_UnknownEndsTurn ==
    \A s \in AllSessions :
        (run[s].llm_intent = "unknown" /\ run[s].pc = "idle") =>
            /\ run[s].outcome = "ended"
            /\ run[s].nodes_run = <<"classify_intent">>
            /\ \A i \in 1..Len(storage[s].actions_taken) :
                 i > Len(run[s].pre.actions_taken) =>
                    storage[s].actions_taken[i] \notin TaskHandlers
            /\ MemoryUntouched(s)

----------------------------------------------------------------------------
(* C2 *)

\* C2: in every turn at most one task handler is invoked; once the
\* classifier has answered qa, summarization or calculation, the handler
\* that runs is the one of that intent, and it has run exactly once when the
\* turn is past the handler step.
C2_OneHandlerPerTurn ==
    \A s \in AllSessions :
        /\ Len(HandlersRun(s)) <= 1
        /\ run[s].llm_intent \notin HandledIntents => HandlersRun(s) = <<>>
        /\ run[s].llm_intent \in HandledIntents =>
             IF run[s].pc \in TaskHandlers
             THEN /\ run[s].pc = HandlerOf(run[s].llm_intent)
                  /\ HandlersRun(s) = <<>>
             ELSE HandlersRun(s) = <<HandlerOf(run[s].llm_intent)>>

\* A summarization turn that ran to its end, with its one handler.
C2_Witness ==
    \E s \in AllSessions :
        /\ run[s].outcome = "ended"
        /\ run[s].llm_intent = "summarization"
        /\ HandlersRun(s) = <<"summarization_agent">>

----------------------------------------------------------------------------
(* C3 *)

QaTrail == <<"classify_intent", "qa_agent", "update_memory">>

\* C3 as stated: at the end of every successful QA turn actions_taken
\* equals exactly [classify_intent, qa_agent, update_memory].
C3_TrailIsExactlyThree ==
    \A s \in AllSessions :
        (run[s].outcome = "ended" /\ run[s].llm_intent = "qa") =>
            storage[s].actions_taken = QaTrail

\* C3 amended: at the end of every successful QA turn actions_taken equals
\* the value it had when the turn started followed by classify_intent,
\* qa_agent, update_memory in that order (which is exactly those three when
\* no node had completed earlier in the session).
C3_TrailAppendsThree ==
    \A s \in AllSessions :
        (run[s].outcome = "ended" /\ run[s].llm_intent = "qa") =>
            storage[s].actions_taken = run[s].pre.actions_taken \o QaTrail

\* A successful QA turn on a session whose earlier turn had left entries.
C3_Witness ==
    \E s \in AllSessions :
        /\ run[s].outcome = "ended"
        /\ run[s].llm_intent = "qa"
        /\ run[s].pre.actions_taken # <<>>
        /\ Len(storage[s].actions_taken) > Len(QaTrail)

----------------------------------------------------------------------------
(* C4 *)

\* C4: when a task handler fails, update_memory is not invoked in that turn
\* and conversation_summary and active_documents are what they were before
\* the turn; when a task handler has completed and update_memory has not
\* been invoked yet, the turn is still in flight and update_memory is the
\* next node.
C4_MemoryOnlyAfterHandlerSuccess ==
    \A s \in AllSessions :
        /\ run[s].failed \in TaskHandlers =>
             /\ \A i \in 1..Len(run[s].nodes_run) :
                  run[s].nodes_run[i] # "update_memory"
             /\ MemoryUntouched(s)
             /\ TurnOver(s)
        /\ (HandlerCompleted(s)
              /\ run[s].nodes_run[Len(run[s].nodes_run)] \in TaskHandlers) =>
             /\ run[s].pc = "update_memory"
             /\ run[s].outcome = "running"
        /\ (\E i \in 1..Len(run[s].nodes_run) :
              run[s].nodes_run[i] = "update_memory") =>
             /\ Len(run[s].nodes_run) = 3
             /\ run[s].nodes_run[2] \in TaskHandlers
             /\ run[s].nodes_run[3] = "update_memory"

\* A handler failed in a turn of a session that already had a summary.
C4_Witness ==
    \E s \in AllSessions :
        /\ run[s].failed \in TaskHandlers
        /\ "conversation_summary" \in DOMAIN run[s].pre
        /\ "conversation_summary" \in DOMAIN storage[s]

----------------------------------------------------------------------------
(* C5 *)

\* C5: every AnswerResponse that is constructed, with sources passed or
\* left to the default, has at least one source when confidence >= 0.7;
\* confidence 0.9 with sources [] is rejected; confidence below 0.7 (within
\* range) is accepted whatever the sources.
C5_HighConfidenceHasSources ==
    constructed # <<>> =>
        LET args == candidate[1]
            res == constructed[1]
        IN /\ (res.ok /\ res.value.confidence >= HighConfidence) =>
                Entries(res.value.sources) >= 1
           /\ (args.confidence = 9 /\ args.sources = Passed(<<>>)) => ~res.ok
           /\ (args.confidence < HighConfidence
                 /\ args.confidence >= ConfidenceMin) => res.ok

----------------------------------------------------------------------------
(* C6 *)

\* new keeps every message of old at its position, unchanged, holds no
\* message of old a second time, and is no shorter.
Extends(old, new) ==
    /\ Len(new) >= Len(old)
    /\ \A i \in 1..Len(old) : new[i] = old[i]
    /\ \A i \in 1..Len(old) : \A j \in 1..Len(new) :
         new[j].id = old[i].id => j = i

\* C6: no step of any node or turn shrinks messages: every message present
\* before the step is present after it at the same position with the same
\* content, and none of them is duplicated.
C6_MessagesOnlyGrow ==
    [][\A s \in AllSessions :
         Extends(storage[s].messages, storage'[s].messages)]_vars

\* A handler has merged its full message list, history included, into a
\* history that was not empty.
C6_Witness ==
    \E s \in AllSessions :
        /\ HandlerCompleted(s)
        /\ run[s].pre.messages # <<>>
        /\ Len(storage[s].messages) > Len(run[s].pre.messages)
        /\ Len(storage[s].current_response.messages) = Len(storage[s].messages)

----------------------------------------------------------------------------
(* C7 *)

\* C7: once a task handler has completed in a turn, tools_used holds the
\* names of the tools invoked during that handler call, one per invocation
\* in invocation order, and nothing from earlier turns.
C7_ToolsUsedOfThisCall ==
    \A s \in AllSessions :
        HandlerCompleted(s) => storage[s].tools_used = run[s].invoked

----------------------------------------------------------------------------
(* C8 *)

\* C8 as stated: at the end of a successful summarization turn
\* active_documents equals the document ids the summarization handler
\* returned in that turn.
C8_ActiveDocumentsFromHandler ==
    \A s \in AllSessions :
        (run[s].outcome = "ended" /\ run[s].llm_intent = "summarization") =>
            storage[s].active_documents
                = storage[s].current_response.structured_response.document_ids

\* C8 amended: at the end of a successful summarization turn
\* active_documents equals the document_ids of the response the memory
\* consolidator (update_memory) produced in that turn, whatever document ids
\* the summarization handler returned.
C8_ActiveDocumentsFromMemory ==
    \A s \in AllSessions :
        (run[s].outcome = "ended" /\ run[s].llm_intent = "summarization") =>
            /\ run[s].memory # <<>>
            /\ storage[s].active_documents = run[s].memory[1].document_ids

\* The scenario of the specification: the handler returned d1, d2, d3 and
\* the turn ended with those three active.
C8_Witness ==
    \E s \in AllSessions :
        /\ run[s].outcome = "ended"
        /\ run[s].llm_intent = "summarization"
        /\ run[s].handler_args = <<[document_ids |-> Passed(<<"d1", "d2", "d3">>)]>>
        /\ storage[s].active_documents = PyList(<<"d1", "d2", "d3">>)

----------------------------------------------------------------------------
(* C9 *)

IsPrefix(a, b) == Len(a) <= Len(b) /\ \A i \in 1..Len(a) : a[i] = b[i]

TurnPath(t) == <<"classify_intent", HandlerOf(t), "update_memory">>

\* C9: a turn whose intent is qa, summarization or calculation and in which
\* no node fails runs classify_intent, the handler of the intent and
\* update_memory, in that order, and then ends; the handler leaves
\* next_step = "update_memory"; the turn ends with next_step = "end" and
\* with conversation_summary and active_documents set to the memory
\* consolidator's response.
C9_HandledTurnRunsToMemory ==
    \A s \in AllSessions :
        (run[s].llm_intent \in HandledIntents /\ run[s].failed = "none") =>
            /\ IsPrefix(run[s].nodes_run, TurnPath(run[s].llm_intent))
            /\ run[s].pc = IF Len(run[s].nodes_run) = 3 THEN "idle"
                           ELSE TurnPath(run[s].llm_intent)[Len(run[s].nodes_run) + 1]
            /\ run[s].pc = "update_memory" =>
                  storage[s].next_step = "update_memory"
            /\ run[s].pc = "idle" =>
                  /\ run[s].outcome = "ended"
                  /\ storage[s].next_step = "end"
                  /\ storage[s].conversation_summary = run[s].memory[1].summary
                  /\ storage[s].active_documents = run[s].memory[1].document_ids

\* A calculation turn that ended and replaced an earlier summary.
C9_Witness ==
    \E s \in AllSessions :
        /\ run[s].outcome = "ended"
        /\ run[s].llm_intent = "calculation"
        /\ "conversation_summary" \in DOMAIN run[s].pre
        /\ run[s].pre.conversation_summary # storage[s].conversation_summary
        /\ run[s].pre.active_documents # storage[s].active_documents

----------------------------------------------------------------------------
(* C10 *)

NextStepTokens ==
    {"qa", "summarization", "calculation", "unknown", "update_memory", "end"}

\* C10: next_step, as the router reads it, is always one of qa,
\* summarization, calculation, unknown, update_memory, end; and the node
\* that follows classify_intent in a turn is decided by the intent
\* classified in that turn alone (the handler of that intent, or none for
\* "unknown"), never by the next_step an earlier turn left behind.
C10_NextStepFreshTokens ==
    /\ [](\A s \in AllSessions : should_continue(storage[s]) \in NextStepTokens)
    /\ [][\A s \in AllSessions :
            (run[s].pc = "classify_intent" /\ run'[s].pc # "classify_intent") =>
                IF run'[s].llm_intent \in HandledIntents
                THEN /\ run'[s].pc = HandlerOf(run'[s].llm_intent)
                     /\ storage'[s].next_step = run'[s].llm_intent
                ELSE run'[s].pc = "idle"]_vars

\* A turn routed to qa_agent on a session whose aborted earlier turn had
\* left next_step = "update_memory".
C10_Witness ==
    \E s \in AllSessions :
        /\ run[s].pc = "qa_agent"
        /\ run[s].llm_intent = "qa"
        /\ "next_step" \in DOMAIN run[s].pre
        /\ run[s].pre.next_step = "update_memory"

----------------------------------------------------------------------------
(* C11 *)

\* C11: when a node fails (classify_intent, a task handler or
\* update_memory), the turn aborts with the failing node as the last node
\* invoked, the failing node writes nothing to the state, actions_taken holds
\* its pre-turn entries followed by the nodes that completed before the
\* failure, and conversation_summary and active_documents are both at their
\* pre-turn values.
C11_FailureAbortsWithoutWrites ==
    /\ [](\A s \in AllSessions :
            run[s].outcome = "aborted" =>
                /\ run[s].pc = "idle"
                /\ run[s].nodes_run # <<>>
                /\ run[s].nodes_run[Len(run[s].nodes_run)] = run[s].failed
                /\ storage[s].actions_taken
                     = run[s].pre.actions_taken
                         \o SubSeq(run[s].nodes_run, 1, Len(run[s].nodes_run) - 1)
                /\ MemoryUntouched(s))
    /\ [][\A s \in AllSessions :
            (run[s].outcome = "running" /\ run'[s].outcome = "aborted") =>
                storage'[s] = storage[s]]_vars

\* update_memory failed after classify_intent and a handler had completed,
\* on a session that held a summary from an earlier turn.
C11_Witness ==
    \E s \in AllSessions :
        /\ run[s].outcome = "aborted"
        /\ run[s].failed = "update_memory"
        /\ Len(run[s].nodes_run) = 3
        /\ "conversation_summary" \in DOMAIN storage[s]

----------------------------------------------------------------------------
(* C12 *)

\* C12: the turn submitted after an aborted turn of the same session starts
\* at classify_intent, not at the node the aborted turn stopped at, and as
\* long as none of its nodes fails it follows the path of its intent and
\* ends normally.
C12_TurnAfterAbortRunsNormally ==
    \A s \in AllSessions :
        run[s].prev_outcome = "aborted" =>
            /\ run[s].nodes_run = <<>> =>
                  run[s].pc = "classify_intent" /\ run[s].outcome = "running"
            /\ run[s].nodes_run # <<>> => run[s].nodes_run[1] = "classify_intent"
            /\ run[s].failed = "none" =>
                  /\ run[s].outcome \in {"running", "ended"}
                  /\ run[s].pc = "idle" <=> run[s].outcome = "ended"
                  /\ run[s].outcome = "ended" =>
                        /\ run[s].llm_intent \in HandledIntents
                        /\ run[s].nodes_run = TurnPath(run[s].llm_intent)
                        /\ storage[s].actions_taken
                             = run[s].pre.actions_taken \o TurnPath(run[s].llm_intent)

\* A turn that ran to its end on a session whose previous turn had aborted
\* in update_memory.
C12_Witness ==
    \E s \in AllSessions :
        /\ run[s].prev_outcome = "aborted"
        /\ "next_step" \in DOMAIN run[s].pre
        /\ run[s].pre.next_step = "update_memory"
        /\ run[s].outcome = "ended"

----------------------------------------------------------------------------
(* C13 *)

ClassifyRuns(s) ==
    Len(SelectSeq(run[s].nodes_run, LAMBDA n : n = "classify_intent"))

\* C13: the state is checkpointed after every node, so that a turn cut by a
\* crash between two nodes and then resumed continues with the node that
\* follows the last completed one, on the state that node left, and does
\* not run classify_intent a second time.
C13_ResumeContinuesAfterCrash ==
    \A s \in AllSessions :
        run[s].resumed =>
            /\ run[s].error # "EmptyInputError"
            /\ ClassifyRuns(s) = 1
            /\ Len(run[s].nodes_run) = run[s].stop_len =>
                  run[s].pc = run[s].stopped_at
            /\ Len(run[s].nodes_run) > run[s].stop_len =>
                  run[s].nodes_run[run[s].stop_len + 1] = run[s].stopped_at
            /\ storage[s].actions_taken = run[s].completed

----------------------------------------------------------------------------
(* C14 *)

\* The state of session s bears the marks of its own turns only: its own
\* identity, the log of its own completed nodes, and message ids drawn
\* against its own messages.
OwnState(s) ==
    /\ "session_id" \in DOMAIN storage[s] =>
          storage[s].session_id = s /\ storage[s].user_id = UserOf(s)
    /\ storage[s].actions_taken = run[s].completed
    /\ Ids(storage[s].messages) = 1..Len(storage[s].messages)

\* C14: turns of different sessions interleave node by node without
\* interference: a step of one session leaves the checkpointed state and the
\* position of every other session as they were, and each session's state
\* is the one its own turns produce.
C14_SessionsDoNotInterfere ==
    /\ [](\A s \in AllSessions : OwnState(s))
    /\ [][\A s \in AllSessions :
            (run'[s] # run[s] \/ storage'[s] # storage[s]) =>
                \A x \in AllSessions \ {s} :
                    storage'[x] = storage[x] /\ run'[x] = run[x]]_vars

\* Both sessions are in the middle of a turn, at different nodes, each with
\* its own messages.
C14_Witness ==
    /\ run["s1"].pc = "update_memory"
    /\ run["s2"].pc = "qa_agent"
    /\ storage["s1"].messages # <<>>
    /\ storage["s2"].messages = <<>>

----------------------------------------------------------------------------
(* C15 *)

\* C15: actions_taken is an append-only log of the session: every node that
\* runs to its return appends its own name, once, at the end, and leaves the
\* earlier entries (those of earlier turns included) as they were, so the
\* list is always the names of the nodes that ran, in the order they ran.
C15_EveryExecutionIsLogged ==
    \A s \in AllSessions : storage[s].actions_taken = run[s].returned

----------------------------------------------------------------------------
(* C16 *)

StateKeys ==
    {"user_input", "messages", "intent", "next_step", "conversation_summary",
     "active_documents", "current_response", "tools_used", "session_id",
     "user_id", "actions_taken"}

\* The keys whose value differs between dictionaries a and b.
ChangedKeys(a, b) == {k \in StateKeys : ~SameKey(a, b, k)}

\* The keys each node is said to write.
WritesOf(node) ==
    IF node = "classify_intent" THEN {"actions_taken", "intent", "next_step"}
    ELSE IF node \in TaskHandlers
         THEN {"messages", "actions_taken", "current_response", "tools_used",
               "next_step"}
    ELSE {"conversation_summary", "active_documents", "actions_taken",
          "next_step"}

\* C16: a node changes only its own fields: classify_intent only
\* actions_taken, intent and next_step; a task handler only messages,
\* actions_taken, current_response, tools_used and next_step; update_memory
\* only conversation_summary, active_documents, actions_taken and
\* next_step; no node changes user_input, session_id or user_id.
C16_NodesWriteOwnFields ==
    [][\A s \in AllSessions :
         run'[s].nodes_run # run[s].nodes_run /\ run'[s].nodes_run # <<>> =>
            LET node == run'[s].nodes_run[Len(run'[s].nodes_run)]
                changed == ChangedKeys(storage[s], storage'[s])
            IN /\ changed \subseteq WritesOf(node)
               /\ changed \cap {"user_input", "session_id", "user_id"} = {}
               /\ DOMAIN storage'[s] \subseteq StateKeys]_vars

\* update_memory has completed on a state in which a handler had left
\* messages, a response and tools used.
C16_Witness ==
    \E s \in AllSessions :
        /\ run[s].outcome = "ended"
        /\ run[s].nodes_run[Len(run[s].nodes_run)] = "update_memory"
        /\ storage[s].tools_used # <<>>
        /\ storage[s].messages # <<>>
        /\ "current_response" \in DOMAIN storage[s]

====
